---- MODULE Spec2Model ----
(***************************************************************************)
(* lighthouse-results-badger: src/index.ts.                                *)
(*                                                                         *)
(* run() reads the action inputs, lists the reports directory, and for     *)
(* every *.report.json file parses it, writes one badge per configured     *)
(* category and uploads badge and (optionally) report to S3 or Azure.      *)
(*                                                                         *)
(* Strings are sequences of tokens, so that concatenation, replace(),      *)
(* endsWith(), basename() and the URL regular expression are computed.     *)
(* One step of the model is one synchronous stretch of run(): the code     *)
(* between two awaits, cut further at the loop heads.                      *)
(***************************************************************************)
EXTENDS Integers, Sequences, FiniteSets

\* ------------------------------------------------------------------ bounds

\* Longest directory listing.
MaxFiles == 2

\* Longest list of configured categories.
MaxCategories == 2

\* Largest score classified, in thousandths: 1000 is the score 1.
MaxScore == 1000

\* ----------------------------------------------------------------- strings

\* A string piece that may be empty: the empty string contributes no token.
Tok(s) == IF s = "" THEN << >> ELSE << s >>

\* Index of the first occurrence of token t in s at or after i, 0 when none.
RECURSIVE IndexFrom(_, _, _)
IndexFrom(s, t, i) ==
    IF i > Len(s) THEN 0
    ELSE IF s[i] = t THEN i
    ELSE IndexFrom(s, t, i + 1)

\* Index of the last occurrence of token t in s[1..i], 0 when none.
RECURSIVE LastIndexUpTo(_, _, _)
LastIndexUpTo(s, t, i) ==
    IF i = 0 THEN 0
    ELSE IF s[i] = t THEN i
    ELSE LastIndexUpTo(s, t, i - 1)

\* String.prototype.replace with a string pattern: the first occurrence only.
Replace(s, t, by) ==
    LET i == IndexFrom(s, t, 1)
    IN  IF i = 0 THEN s
        ELSE SubSeq(s, 1, i - 1) \o by \o SubSeq(s, i + 1, Len(s))

\* A replace of every occurrence (what replace() does NOT do).
RECURSIVE ReplaceAll(_, _, _)
ReplaceAll(s, t, by) ==
    IF s = << >> THEN << >>
    ELSE (IF Head(s) = t THEN by ELSE << Head(s) >>) \o ReplaceAll(Tail(s), t, by)

\* file.endsWith('.report.json')
EndsWithReportJson(file) ==
    /\ Len(file) >= 2
    /\ file[Len(file) - 1] = "."
    /\ file[Len(file)] = "report.json"

\* path.join(reportsPath, file)
PathJoin(dirName, file) == << dirName, "/" >> \o file

\* path.basename(filePath)
Basename(filePath) ==
    SubSeq(filePath, LastIndexUpTo(filePath, "/", Len(filePath)) + 1, Len(filePath))

\* Number of occurrences of x in the sequence s.
Count(s, x) == Cardinality({i \in 1..Len(s) : s[i] = x})

\* All sequences over S of length lo..hi.
SeqsOf(S, lo, hi) == UNION {[1..n -> S] : n \in lo..hi}

\* -------------------------------------------------------- the environment

\* Values of the upload-destination input; "" is the omitted input.
DestinationInputs == {"", "s3", "azure", "none"}

\* Values of the upload-reports input; "" is the omitted input.
UploadReportsInputs == {"", "true"}

\* Values of the s3-prefix input.
PrefixInputs == {"", "badges/"}

\* One comma-separated piece of result-categories, with or without blanks
\* around its text.
Pieces == {[pad |-> FALSE, text |-> "seo"], [pad |-> TRUE, text |-> "pwa"]}

\* The pieces of the result-categories input after split(','): an omitted
\* input splits into the single empty piece.
CategoryInputs ==
    SeqsOf(Pieces, 1, MaxCategories) \cup {<< [pad |-> FALSE, text |-> ""] >>}

\* The entries a directory can hold, in the order readdirSync lists them.
EntryNames ==
    << << "home", ".", "report.json" >>,
       << "notes", ".", "txt" >>,
       << "report.json", ".", "report.json" >> >>

\* Directory listings: at most MaxFiles of the entries, in directory order.
Listings ==
    {d \in SeqsOf({EntryNames[k] : k \in 1..Len(EntryNames)}, 0, MaxFiles) :
        \A i, j \in 1..Len(d) :
            i < j => IndexFrom(EntryNames, d[i], 1) < IndexFrom(EntryNames, d[j], 1)}

\* The directory run() works in (reports-path, or the working directory).
reportsPath == "reports"

\* Values of report.finalUrl; the empty string stands for an absent one too.
FinalUrls ==
    { << >>,
      << "https:", "//", "a.com", "/foo" >>,
      << "https:", "//", "a.com", "/" >>,
      << "https:", "//", "a.com" >> }

\* Math.ceil(undefined * 100)
NaN == -1

\* Scores are counted in thousandths: 495 is 0.495.
Absent == -2

\* report.categories of a valid report: label -> score, or Absent.
CategoryMaps ==
    { [l \in {"seo", "pwa", ""} |-> IF l = "seo" THEN 495 ELSE Absent],
      [l \in {"seo", "pwa", ""} |-> IF l = "seo" THEN 495 ELSE IF l = "pwa" THEN 900 ELSE Absent] }

\* What a report file can hold.
Contents ==
    { [kind |-> "malformed"], [kind |-> "null"], [kind |-> "nocategories"] }
    \cup [kind : {"valid"}, finalUrl : FinalUrls, categories : CategoryMaps]

\* ------------------------------------------------------------------- state

VARIABLES
    env,            \* the action inputs: dest, reports, prefix, categories
    dir,            \* fs.readdirSync(reportsPath)
    pc,             \* where run() stands: start, file, category, report, await, done
    fi,             \* index in reportFiles of the file being processed
    ci,             \* index in resultCategories of the label being processed; 0 outside the label loop
    report,         \* the parsed report of the current file
    urlPath,        \* the URL path derived from the current report
    seen,           \* per file read so far: "valid" or "invalid"
    writes,         \* the badge files written so far, in order
    started,        \* ids <<file, category>> of the upload calls issued so far (category 0: the raw report)
    completed,      \* ids of the upload calls settled so far
    pending,        \* the upload calls in flight
    outputs,        \* the action outputs, by name
    setCalls,       \* number of core.setOutput calls, by name
    lastOk,         \* the upload whose success was the latest, by output name
    failed,         \* core.setFailed was called
    uploadErrors,   \* number of upload calls that were rejected
    nActionFailed,  \* number of 'Action failed with error' failures
    lastLog,        \* the last line logged
    error,          \* the exception the outermost catch caught
    atCatch,        \* how far the run had got when the outermost catch ran
    badge,          \* the last badge rendered
    probe           \* the scores classified so far, and the colour each percentage got

vars ==
    << env, dir, pc, fi, ci, report, urlPath, seen, writes, started, completed,
       pending, outputs, setCalls, lastOk, failed, uploadErrors, nActionFailed,
       lastLog, error, atCatch, badge, probe >>

NoReport == [kind |-> "none"]

NoUpload == [backend |-> "none"]

NoBadge == [label |-> "", score |-> Absent, status |-> NaN, color |-> "none"]

NoLog == [level |-> "none", text |-> "", arg |-> << >>]

Unset == << >>

NoProbe == [next |-> Absent, colors |-> << >>]

OutputNames == {"s3-url", "azure-blob-url"}

\* ------------------------------------------------------ configuration reader

\* core.getInput('upload-destination') || 's3'
uploadDestination == IF env.dest = "" THEN "s3" ELSE env.dest

\* core.getInput('upload-reports') || 'false'
uploadReports == IF env.reports = "" THEN "false" ELSE env.reports

\* core.getInput('s3-prefix') || ''
s3Prefix == IF env.prefix = "" THEN "" ELSE env.prefix

\* category.trim()
Trim(piece) == piece.text

\* core.getInput('result-categories').split(',').map(category => category.trim())
resultCategories == [i \in 1..Len(env.categories) |-> Trim(env.categories[i])]

\* fs.readdirSync(reportsPath).filter(file => file.endsWith('.report.json'))
reportFiles == SelectSeq(dir, EndsWithReportJson)

\* ----------------------------------------------------------- score and name

\* Thousandths s for which the double s/1000 * 100 exceeds the exact product.
RoundsAbove == {70, 140, 280, 550, 560}

\* Math.ceil(report.categories[label]?.score * 100)
Percentage(s) ==
    IF s = Absent THEN NaN
    ELSE IF s \in RoundsAbove THEN (s \div 10) + 1
    ELSE (s + 9) \div 10

GreenMin == 90

OrangeMin == 50

\* A comparison with NaN is false.
Geq(a, b) == a # NaN /\ a >= b

\* The colour with the thresholds excluded (not what the code does).
ColorStrict(score) ==
    IF Geq(score, GreenMin + 1) THEN "green"
    ELSE IF Geq(score, OrangeMin + 1) THEN "orange"
    ELSE "red"

\* let color = 'red'; if (score >= 90) color = 'green'; else if (score >= 50) color = 'orange'
Color(score) ==
    IF Geq(score, GreenMin) THEN "green"
    ELSE IF Geq(score, OrangeMin) THEN "orange"
    ELSE "red"

\* badgen({ label, status: score.toString(), color }), as the triple it is made from
Badgen(label, s) ==
    [label |-> label, score |-> s, status |-> Percentage(s), color |-> Color(Percentage(s))]

\* The badge name with every 'report.json' of the file name replaced.
SvgFileNameAll(file, label) ==
    PathJoin(reportsPath, ReplaceAll(file, "report.json", Tok(label) \o << ".svg" >>))

\* path.join(reportsPath, file.replace('report.json', `${label}.svg`))
SvgFileName(file, label) ==
    PathJoin(reportsPath, Replace(file, "report.json", Tok(label) \o << ".svg" >>))

\* \w+: , a token that is word characters and a colon
IsScheme(t) == t \in {"https:"}

\* [^/]+ , a token without a slash
IsHost(t) == t \in {"a.com"}

\* url.replace(/(^\w+:|^)\/\/[^/]+/, '')
StripOrigin(url) ==
    IF Len(url) >= 3 /\ IsScheme(url[1]) /\ url[2] = "//" /\ IsHost(url[3])
    THEN SubSeq(url, 4, Len(url))
    ELSE IF Len(url) >= 2 /\ url[1] = "//" /\ IsHost(url[2])
    THEN SubSeq(url, 3, Len(url))
    ELSE url

\* const url = report?.finalUrl || '/main'; strip the origin; '/' becomes '/main'
UrlPath(finalUrl) ==
    LET url == IF finalUrl = << >> THEN << "/main" >> ELSE finalUrl
        stripped == StripOrigin(url)
    IN  IF stripped = << "/" >> THEN << "/main" >> ELSE stripped

\* The badge key without the prefix (not what the code does).
BadgeKeyNoPrefix(prefix, path, label) == path \o << "." >> \o Tok(label) \o << ".svg" >>

\* `${s3Prefix}${urlPath}.${label}.svg`
BadgeKey(prefix, path, label) ==
    Tok(prefix) \o path \o << "." >> \o Tok(label) \o << ".svg" >>

\* `${s3Prefix}${urlPath}.report.json`
ReportKey(prefix, path) == Tok(prefix) \o path \o << ".", "report.json" >>

\* --------------------------------------------------------- upload dispatcher

\* The dispatch with a plain else for the second backend (not what the code does).
BackendElse(dest) == IF dest = "s3" THEN "s3" ELSE "azure"

\* if (uploadDestination === 's3') ... else if (uploadDestination === 'azure') ...
Backend(dest) ==
    IF dest = "s3" THEN "s3"
    ELSE IF dest = "azure" THEN "azure"
    ELSE "none"

\* The raw report uploaded whatever upload-reports says (not what the code does).
UploadsReportAlways(flag) == TRUE

\* if (uploadReports === 'true')
UploadsReport(flag) == flag = "true"

\* uploadToS3(filePath, ..., rawName, contentType): the call it issues
uploadToS3(filePath, rawName, contentType, id) ==
    [backend |-> "s3", filePath |-> filePath, name |-> rawName,
     contentType |-> contentType, id |-> id]

\* uploadToAzure(filePath, ...): the call it issues; blobName = path.basename(filePath)
uploadToAzure(filePath, id) ==
    [backend |-> "azure", filePath |-> filePath, name |-> Basename(filePath),
     contentType |-> "image/svg+xml", id |-> id]

\* The upload call run() makes for a file, NoUpload when it makes none.
Dispatch(filePath, rawName, contentType, id) ==
    IF Backend(uploadDestination) = "s3" THEN uploadToS3(filePath, rawName, contentType, id)
    ELSE IF Backend(uploadDestination) = "azure" THEN uploadToAzure(filePath, id)
    ELSE NoUpload

\* data.Location, blockBlobClient.url
Location(u) == << u.backend, "://" >> \o u.name

\* 's3-url', 'azure-blob-url'
OutputName(backend) == IF backend = "s3" THEN "s3-url" ELSE "azure-blob-url"

\* An output that keeps its first value (not what the code does).
SetOutputOnce(outs, name, value) ==
    IF outs[name] = Unset THEN [outs EXCEPT ![name] = value] ELSE outs

\* core.setOutput(name, value)
SetOutput(outs, name, value) == [outs EXCEPT ![name] = value]

\* An upload call that is not awaited (not what the code does).
NotAwaited == FALSE

\* await uploadToS3(...), await uploadToAzure(...)
AwaitsUpload == TRUE

\* An upload catch that throws again (not what the code does).
RethrowsAlways == TRUE

\* catch (error) { core.setFailed(`Failed to upload ...`) }: nothing is thrown again
RethrowsUploadError == FALSE

\* ------------------------------------------------------------- control flow

Pos(p, i, c) == [pc |-> p, fi |-> i, ci |-> c]

\* The end of the body of for (const file of reportFiles)
AfterReport(i) ==
    IF i < Len(reportFiles) THEN Pos("file", i + 1, 0) ELSE Pos("done", i, 0)

\* The end of the body of for (const label of resultCategories)
AfterBadge(i, c) ==
    IF c < Len(resultCategories) THEN Pos("category", i, c + 1) ELSE Pos("report", i, 0)

\* An invalid file that ends the loop (not what the code does).
StopAfterInvalid(i) == Pos("done", i, 0)

\* core.warning(`Invalid file ${file}`); continue
AfterInvalid(i) == AfterReport(i)

\* A catch inside the loop over the files (not what the code does).
CatchInsideLoop(i) == AfterReport(i)

\* try { ... } catch: the try holds the whole of run(), so the catch ends it
AfterCatch(i) == Pos("done", i, 0)

\* The continuation of run() once the awaited upload call has settled.
AfterUpload(u) == IF u.id[2] = 0 THEN AfterReport(fi) ELSE AfterBadge(fi, ci)

\* run() goes on at p; the report is a local of the loop body and ends with it.
Goto(p) ==
    /\ pc' = p.pc
    /\ fi' = p.fi
    /\ ci' = p.ci
    /\ report' = IF p.pc \in {"file", "done"} THEN NoReport ELSE report
    /\ urlPath' = IF p.pc \in {"file", "done"} THEN << >> ELSE urlPath

\* catch (error) { core.setFailed(`Action failed with error: ${error.message}`) }
\* after the run has come as far as sn files read, wr badges written, st uploads called.
Catch(cause, sn, wr, st) ==
    /\ error' = cause
    /\ failed' = TRUE
    /\ nActionFailed' = nActionFailed + 1
    /\ lastLog' = [level |-> "failed", text |-> "Action failed with error", arg |-> << cause >>]
    /\ atCatch' = [seen |-> sn, writes |-> wr, started |-> st]
    /\ Goto(AfterCatch(fi))

\* ------------------------------------------------------------------ actions

Init ==
    /\ env \in [dest : DestinationInputs, reports : UploadReportsInputs,
                prefix : PrefixInputs, categories : CategoryInputs]
    /\ dir \in Listings
    /\ pc = "start"
    /\ fi = 0
    /\ ci = 0
    /\ report = NoReport
    /\ urlPath = << >>
    /\ seen = << >>
    /\ writes = << >>
    /\ started = << >>
    /\ completed = << >>
    /\ pending = {}
    /\ outputs = [n \in OutputNames |-> Unset]
    /\ setCalls = [n \in OutputNames |-> 0]
    /\ lastOk = [n \in OutputNames |-> NoUpload]
    /\ failed = FALSE
    /\ uploadErrors = 0
    /\ nActionFailed = 0
    /\ lastLog = NoLog
    /\ error = "none"
    /\ atCatch = [seen |-> 0, writes |-> 0, started |-> 0]
    /\ badge = NoBadge
    /\ probe = NoProbe

\* run(), lines 9-36: the inputs are read, the directory is listed and filtered.
RunStart ==
    /\ pc = "start"
    /\ \/ /\ Catch("readdir", 0, 0, 0)
          /\ UNCHANGED << seen, writes, started, completed, pending, outputs,
                          setCalls, lastOk, uploadErrors, badge >>
       \/ /\ reportFiles = << >>
          /\ lastLog' = [level |-> "warning", text |-> "No Lighthouse reports found.", arg |-> << >>]
          /\ Goto(Pos("done", 0, 0))
          /\ UNCHANGED << seen, writes, started, completed, pending, outputs, setCalls,
                          lastOk, failed, uploadErrors, nActionFailed, error, atCatch, badge >>
       \/ /\ reportFiles # << >>
          /\ Goto(Pos("file", 1, 0))
          /\ UNCHANGED << seen, writes, started, completed, pending, outputs, setCalls,
                          lastOk, failed, uploadErrors, nActionFailed, lastLog, error,
                          atCatch, badge >>
    /\ UNCHANGED << env, dir, probe >>

\* run(), lines 38-50: the next file is read, parsed and validated, its URL path derived.
ReadReport ==
    /\ pc = "file"
    /\ \E content \in Contents :
          \/ /\ content.kind = "malformed"
             /\ Catch("parse", Len(seen), Len(writes), Len(started))
             /\ UNCHANGED << seen, uploadErrors >>
          \/ /\ content.kind = "null"
             /\ Catch("type", Len(seen), Len(writes), Len(started))
             /\ UNCHANGED << seen, uploadErrors >>
          \/ /\ content.kind = "nocategories"
             /\ seen' = Append(seen, "invalid")
             /\ lastLog' = [level |-> "warning", text |-> "Invalid file", arg |-> reportFiles[fi]]
             /\ Goto(AfterInvalid(fi))
             /\ UNCHANGED << failed, uploadErrors, nActionFailed, error, atCatch >>
          \/ /\ content.kind = "valid"
             /\ seen' = Append(seen, "valid")
             /\ report' = content
             /\ urlPath' = UrlPath(content.finalUrl)
             /\ pc' = "category"
             /\ ci' = 1
             /\ UNCHANGED << fi, failed, uploadErrors, nActionFailed, lastLog, error, atCatch >>
    /\ UNCHANGED << env, dir, writes, started, completed, pending, outputs, setCalls,
                    lastOk, badge, probe >>

\* run(), lines 53-69: one badge is rendered and written, and its upload is called.
RenderBadge ==
    /\ pc = "category"
    /\ LET label == resultCategories[ci]
           svgFileName == SvgFileName(reportFiles[fi], label)
           written == Append(writes, [fi |-> fi, ci |-> ci, name |-> svgFileName])
           call == Dispatch(svgFileName, BadgeKey(s3Prefix, urlPath, label),
                            "image/svg+xml", << fi, ci >>)
       IN  /\ badge' = Badgen(label, report.categories[label])
           /\ \/ /\ Catch("write", Len(seen), Len(writes), Len(started))
                 /\ UNCHANGED << writes, started, pending >>
              \/ /\ call = NoUpload
                 /\ writes' = written
                 /\ Goto(AfterBadge(fi, ci))
                 /\ UNCHANGED << started, pending, failed, nActionFailed, lastLog,
                                 error, atCatch >>
              \/ /\ call # NoUpload
                 /\ writes' = written
                 /\ Catch("client", Len(seen), Len(written), Len(started))
                 /\ UNCHANGED << started, pending >>
              \/ /\ call # NoUpload
                 /\ writes' = written
                 /\ started' = Append(started, call.id)
                 /\ pending' = pending \cup {call}
                 /\ Goto(IF AwaitsUpload THEN Pos("await", fi, ci) ELSE AfterBadge(fi, ci))
                 /\ UNCHANGED << failed, nActionFailed, lastLog, error, atCatch >>
    /\ UNCHANGED << env, dir, seen, completed, outputs, setCalls, lastOk, uploadErrors,
                    probe >>

\* run(), lines 73-80: the upload of the raw report is called when asked for.
UploadReport ==
    /\ pc = "report"
    /\ LET filePath == PathJoin(reportsPath, reportFiles[fi])
           call == IF UploadsReport(uploadReports)
                   THEN Dispatch(filePath, ReportKey(s3Prefix, urlPath),
                                 "application/json", << fi, 0 >>)
                   ELSE NoUpload
       IN  \/ /\ call = NoUpload
              /\ Goto(AfterReport(fi))
              /\ UNCHANGED << started, pending, failed, nActionFailed, lastLog,
                              error, atCatch >>
           \/ /\ call # NoUpload
              /\ Catch("client", Len(seen), Len(writes), Len(started))
              /\ UNCHANGED << started, pending >>
           \/ /\ call # NoUpload
              /\ started' = Append(started, call.id)
              /\ pending' = pending \cup {call}
              /\ Goto(IF AwaitsUpload THEN Pos("await", fi, 0) ELSE AfterReport(fi))
              /\ UNCHANGED << failed, nActionFailed, lastLog, error, atCatch >>
    /\ UNCHANGED << env, dir, seen, writes, completed, outputs, setCalls, lastOk,
                    uploadErrors, badge, probe >>

\* uploadToS3, lines 112-118, and uploadToAzure, lines 137-146: the upload call
\* settles, and run() goes on when it awaited it.
UploadSettles ==
    /\ \E u \in pending :
          /\ pending' = pending \ {u}
          /\ completed' = Append(completed, u.id)
          /\ \/ /\ outputs' = SetOutput(outputs, OutputName(u.backend), Location(u))
                /\ setCalls' = [setCalls EXCEPT ![OutputName(u.backend)] = @ + 1]
                /\ lastOk' = [lastOk EXCEPT ![OutputName(u.backend)] = u]
                /\ lastLog' = [level |-> "info", text |-> "Uploaded", arg |-> u.name]
                /\ IF pc = "await" THEN Goto(AfterUpload(u))
                   ELSE UNCHANGED << pc, fi, ci, report, urlPath >>
                /\ UNCHANGED << failed, uploadErrors, nActionFailed, error, atCatch >>
             \/ /\ uploadErrors' = uploadErrors + 1
                /\ IF RethrowsUploadError /\ pc = "await"
                   THEN Catch("upload", Len(seen), Len(writes), Len(started))
                   ELSE /\ failed' = TRUE
                        /\ lastLog' = [level |-> "failed", text |-> "Failed to upload", arg |-> u.name]
                        /\ IF pc = "await" THEN Goto(AfterUpload(u))
                           ELSE UNCHANGED << pc, fi, ci, report, urlPath >>
                        /\ UNCHANGED << nActionFailed, error, atCatch >>
                /\ UNCHANGED << outputs, setCalls, lastOk >>
    /\ UNCHANGED << env, dir, seen, writes, started, badge, probe >>

Next == RunStart \/ ReadReport \/ RenderBadge \/ UploadReport \/ UploadSettles

Spec == Init /\ [][Next]_vars

\* ------------------------------------------------- the score classification

\* The state run() is in before it starts, with one set of inputs.
InitColor ==
    /\ Init
    /\ env = [dest |-> "none", reports |-> "", prefix |-> "",
              categories |-> << [pad |-> FALSE, text |-> "seo"] >>]
    /\ dir = << >>

\* Lines 54-59 applied to the next score: an absent one first, then 0, 0.001, ... in turn.
Classify ==
    /\ probe.next <= MaxScore
    /\ badge' = Badgen("seo", probe.next)
    /\ probe' = [next |-> IF probe.next = Absent THEN 0 ELSE probe.next + 1,
                 colors |-> Append(probe.colors,
                                   [status |-> badge'.status, color |-> badge'.color])]
    /\ UNCHANGED << env, dir, pc, fi, ci, report, urlPath, seen, writes, started,
                    completed, pending, outputs, setCalls, lastOk, failed, uploadErrors,
                    nActionFailed, lastLog, error, atCatch >>

SpecColor == InitColor /\ [][Classify]_vars

\* ---------------------------------------------------------------- properties

\* The files read so far that had a categories field.
ValidFiles == {i \in 1..Len(seen) : seen[i] = "valid"}

\* The positions of the configured category list.
Categories == 1..Len(resultCategories)

\* The destination is one of the two backends.
Uploading == uploadDestination \in {"s3", "azure"}

\* The run came to its end without the outermost catch.
Finished == pc = "done" /\ error = "none"

\* Every file was read, and every valid one got all its badges and upload calls.
WholePipelineRan ==
    /\ Len(seen) = Len(reportFiles)
    /\ \A i \in ValidFiles, c \in Categories :
          /\ \E k \in 1..Len(writes) : writes[k].fi = i /\ writes[k].ci = c
          /\ Uploading => Count(completed, << i, c >>) = 1
    /\ \A i \in ValidFiles :
          (Uploading /\ uploadReports = "true") => Count(completed, << i, 0 >>) = 1

\* C1: a failed upload call marks the run failed, is not thrown again, and
\* leaves the pipeline running: unless an exception from elsewhere ends the
\* run, a run with failed uploads still reads every file and writes and
\* uploads every badge and report, as a run whose uploads all succeed does.
C1_UploadFailureContinues ==
    /\ uploadErrors > 0 => failed
    /\ lastLog.text = "Failed to upload" => (failed /\ uploadErrors > 0 /\ error = "none")
    /\ (uploadErrors > 0 /\ pc = "done"
          /\ error \notin {"readdir", "parse", "type", "write", "client"})
       => WholePipelineRan

\* C1 witness: a finished run of two valid reports whose six upload calls all failed.
C1_Witness ==
    /\ Finished
    /\ uploadErrors = 6
    /\ Len(writes) = 4
    /\ Len(completed) = 6
    /\ failed

\* The name the badge of a report file and label is claimed to have:
\* <reportBase>.<label>.svg, beside the report.
ClaimedBadgeName(file, label) ==
    << reportsPath, "/" >> \o SubSeq(file, 1, Len(file) - 1) \o Tok(label) \o << ".svg" >>

\* name is file with its first 'report.json' replaced by '<label>.svg', in reportsPath.
FirstReplaced(name, file, label) ==
    \E k \in 1..Len(file) :
        /\ file[k] = "report.json"
        /\ \A j \in 1..(k - 1) : file[j] # "report.json"
        /\ name = << reportsPath, "/" >> \o SubSeq(file, 1, k - 1)
                     \o Tok(label) \o << ".svg" >> \o SubSeq(file, k + 1, Len(file))

\* C2 as stated: every report file with a categories field has, for every
\* configured label, its badge <reportBase>.<label>.svg written by the run.
C2_Original ==
    pc = "done" =>
        \A i \in ValidFiles, c \in Categories :
            \E k \in 1..Len(writes) :
                writes[k].name = ClaimedBadgeName(reportFiles[i], resultCategories[c])

\* C2 amended: in a run that ends without an uncaught exception, every report
\* with a categories field has, for every configured label, a badge written
\* beside it whose name is the report's name with its first 'report.json'
\* replaced by '<label>.svg'; that is <reportBase>.<label>.svg when
\* 'report.json' occurs in the report's name only as its ending.
C2_BadgePerReportAndLabel ==
    /\ Finished =>
          \A i \in ValidFiles, c \in Categories :
              \E k \in 1..Len(writes) : writes[k].fi = i /\ writes[k].ci = c
    /\ \A k \in 1..Len(writes) :
          LET file == reportFiles[writes[k].fi]
              label == resultCategories[writes[k].ci]
          IN  /\ FirstReplaced(writes[k].name, file, label)
              /\ Count(file, "report.json") = 1
                    => writes[k].name = ClaimedBadgeName(file, label)

\* C2 witness: a finished run wrote the four badges of two reports, the last
\* one for a label its report does not have (status NaN).
C2_Witness ==
    /\ Finished
    /\ Len(writes) = 4
    /\ ValidFiles = {1, 2}
    /\ badge.status = NaN
    /\ badge.score = Absent

C4_OutermostCatchEndsRun ==
    /\ nActionFailed <= 1
    /\ error = "none" <=> nActionFailed = 0
    /\ error # "none" =>
          /\ pc = "done"
          /\ failed
          /\ lastLog = [level |-> "failed", text |-> "Action failed with error",
                        arg |-> << error >>]
          /\ pending = {}
          /\ Len(seen) = atCatch.seen
          /\ Len(writes) = atCatch.writes
          /\ Len(started) = atCatch.started
          /\ Len(completed) = atCatch.started

\* C4 witness: the client of the first upload call could not be built, with a
\* second label and a second report still to do.
C4_Witness ==
    /\ error = "client"
    /\ Len(reportFiles) = 2
    /\ Len(resultCategories) = 2
    /\ Len(seen) = 1
    /\ Len(writes) = 1
    /\ started = << >>

\* C5 as stated: each output is set at most once per run, and holds the
\* value of the last successful upload.
C5_Original ==
    \A n \in OutputNames :
        /\ setCalls[n] <= 1
        /\ lastOk[n] # NoUpload => outputs[n] = Location(lastOk[n])

\* C5 amended: each output is set once for every successful upload to its
\* backend, so possibly several times per run, and holds the value of the
\* latest successful upload; without a successful upload it is not set.
C5_OutputOfLastSuccess ==
    /\ \A n \in OutputNames :
          /\ lastOk[n] = NoUpload => (outputs[n] = Unset /\ setCalls[n] = 0)
          /\ lastOk[n] # NoUpload =>
                /\ outputs[n] = << lastOk[n].backend, "://" >> \o lastOk[n].name
                /\ n = (IF uploadDestination = "s3" THEN "s3-url" ELSE "azure-blob-url")
    /\ setCalls["s3-url"] + setCalls["azure-blob-url"] + uploadErrors = Len(completed)

\* C5 witness: the output was set three times and holds the location of the
\* raw report, the last upload, not of the first badge.
C5_Witness ==
    /\ Finished
    /\ setCalls["s3-url"] = 3
    /\ lastOk["s3-url"].id = << 1, 0 >>
    /\ outputs["s3-url"] = << "s3", "://", "badges/", "/foo", ".", "report.json" >>

\* C6 as stated: an upload-destination input other than 's3' and 'azure',
\* the omitted input included, gives no upload call and no output.
C6_Original ==
    env.dest \notin {"s3", "azure"} =>
        /\ started = << >>
        /\ \A n \in OutputNames : outputs[n] = Unset

\* C6 amended: an omitted upload-destination input is read as 's3' and does
\* upload; any given value other than 's3' and 'azure' gives no upload call
\* and no output, for badges and raw reports alike, and the badges are still
\* written.
C6_OtherDestinationNoUpload ==
    /\ env.dest = "" => uploadDestination = "s3"
    /\ (env.dest # "" /\ env.dest \notin {"s3", "azure"}) =>
          /\ started = << >>
          /\ pending = {}
          /\ \A n \in OutputNames : outputs[n] = Unset /\ setCalls[n] = 0
          /\ Finished =>
                \A i \in ValidFiles, c \in Categories :
                    \E k \in 1..Len(writes) : writes[k].fi = i /\ writes[k].ci = c
    /\ (started # << >> \/ \E n \in OutputNames : outputs[n] # Unset)
          => env.dest \in {"", "s3", "azure"}

\* C6 witness: with destination 'none' and upload-reports 'true', a finished
\* run wrote the four badges of two reports.
C6_Witness ==
    /\ env.dest = "none"
    /\ env.reports = "true"
    /\ Finished
    /\ ValidFiles = {1, 2}
    /\ Len(writes) = 4

\* C7: the colour follows from the percentage alone: below 50 red, 50 to 89
\* orange, 90 and above green.
C7_ColourOfPercentage ==
    \A k \in 1..Len(probe.colors) :
        LET p == probe.colors[k]
        IN  /\ (p.status # NaN /\ p.status < 50) => p.color = "red"
            /\ (p.status >= 50 /\ p.status <= 89) => p.color = "orange"
            /\ p.status >= 90 => p.color = "green"
            /\ p.color \in {"red", "orange", "green"}

\* C7 witness: the percentages 49, 50, 89 and 90 were classified, as red,
\* orange, orange and green.
C7_Witness ==
    /\ \E k \in 1..Len(probe.colors) : probe.colors[k] = [status |-> 49, color |-> "red"]
    /\ \E k \in 1..Len(probe.colors) : probe.colors[k] = [status |-> 50, color |-> "orange"]
    /\ \E k \in 1..Len(probe.colors) : probe.colors[k] = [status |-> 89, color |-> "orange"]
    /\ \E k \in 1..Len(probe.colors) : probe.colors[k] = [status |-> 90, color |-> "green"]

\* C8: an Azure upload is named by the base name of the local file, whatever
\* the prefix and the URL path; an S3 badge upload has the key
\* <prefix><urlPath>.<label>.svg and an S3 report upload <prefix><urlPath>.report.json.
C8_UploadNames ==
    \A u \in pending :
        LET file == reportFiles[u.id[1]]
            local == IF u.id[2] = 0 THEN << reportsPath, "/" >> \o file
                     ELSE writes[Len(writes)].name
        IN  /\ u.backend \in {"s3", "azure"}
            /\ u.backend = uploadDestination
            /\ u.filePath = local
            /\ u.backend = "azure" =>
                  u.name = SubSeq(local, 3, Len(local))
            /\ (u.backend = "s3" /\ u.id[2] # 0) =>
                  u.name = Tok(env.prefix) \o urlPath \o << "." >>
                              \o Tok(resultCategories[u.id[2]]) \o << ".svg" >>
            /\ (u.backend = "s3" /\ u.id[2] = 0) =>
                  u.name = Tok(env.prefix) \o urlPath \o << ".", "report.json" >>

\* C8 witness: an Azure badge upload in flight, named home.pwa.svg, while the
\* prefix is badges/ and the URL path /foo.
C8_Witness ==
    \E u \in pending :
        /\ u.backend = "azure"
        /\ u.name = << "home", ".", "pwa", ".svg" >>
        /\ env.prefix = "badges/"
        /\ urlPath = << "/foo" >>

\* Number of upload calls issued for file i and the label at list positions in P.
Attempts(i, P) == Cardinality({k \in 1..Len(started) : started[k][1] = i /\ started[k][2] \in P})

\* C9 as stated: in a finished run with a backend, each (valid report,
\* configured category) pair gets exactly one upload call, and each valid
\* report one raw-report call when upload-reports is 'true', none otherwise.
C9_Original ==
    (Finished /\ Uploading) =>
        \A i \in ValidFiles :
            /\ \A c \in Categories :
                  Attempts(i, {d \in Categories : resultCategories[d] = resultCategories[c]}) = 1
            /\ Attempts(i, {0}) = (IF uploadReports = "true" THEN 1 ELSE 0)

\* C9 amended: in a finished run with a backend, each valid report gets
\* exactly one upload call per entry of the configured category list (a label
\* listed twice gets two), and one raw-report call when upload-reports is
\* 'true', none otherwise; no call is issued twice, and none for other files.
C9_OneAttemptPerEntry ==
    /\ \A k, l \in 1..Len(started) : k # l => started[k] # started[l]
    /\ \A k \in 1..Len(started) :
          /\ started[k][1] \in ValidFiles
          /\ started[k][2] = 0 => uploadReports = "true"
    /\ (Finished /\ Uploading) =>
          \A i \in ValidFiles :
              /\ \A c \in Categories : Attempts(i, {c}) = 1
              /\ Attempts(i, {0}) = (IF uploadReports = "true" THEN 1 ELSE 0)

\* C9 witness: a finished run of two valid reports and two labels issued six
\* upload calls, one of which failed.
C9_Witness ==
    /\ Finished
    /\ Uploading
    /\ ValidFiles = {1, 2}
    /\ Len(resultCategories) = 2
    /\ Len(started) = 6
    /\ uploadErrors = 1

\* C10: at most one upload is in flight and run() waits for it; an upload is
\* called only when the one before has settled; a badge is uploaded only once
\* written; a report is uploaded only when all its badge uploads have settled
\* and before any badge of a later report is written.
C10_SequentialUploads ==
    /\ Cardinality(pending) <= 1
    /\ pending # {} <=> pc = "await"
    /\ Len(started) = Len(completed) + Cardinality(pending)
    /\ \A k \in 1..Len(completed) : completed[k] = started[k]
    /\ \A u \in pending :
          /\ u.id = started[Len(started)]
          /\ u.id[2] # 0 =>
                /\ writes # << >>
                /\ writes[Len(writes)] = [fi |-> u.id[1], ci |-> u.id[2], name |-> u.filePath]
          /\ u.id[2] = 0 =>
                /\ \A c \in Categories : Count(completed, << u.id[1], c >>) = 1
                /\ \A k \in 1..Len(writes) : writes[k].fi <= u.id[1]
    /\ \A k \in 1..Len(writes) :
          \A i \in ValidFiles :
              (i < writes[k].fi /\ Uploading /\ uploadReports = "true")
                  => Count(completed, << i, 0 >>) = 1

\* C10 witness: the raw report of the first report is in flight after its two
\* badge uploads settled, and no badge of the second report is written yet.
C10_Witness ==
    /\ \E u \in pending : u.id = << 1, 0 >>
    /\ completed = << << 1, 1 >>, << 1, 2 >> >>
    /\ Len(reportFiles) = 2
    /\ Len(writes) = 2

====
